---------------------------- MODULE Spec2Model ----------------------------
(***************************************************************************)
(* Model of src/src/quadtree.py: the QuadTree data type (constructor,      *)
(* depth, from_list, from_file), the TkQuadTree renderer (constructor and  *)
(* the recursive draw) and main.                                           *)
(*                                                                         *)
(* Python values are tagged records [k, v]: the tag k is the run-time type *)
(* that isinstance inspects, v the payload.  A call that raises is         *)
(* modelled by the value Raise(exception class) returned in its place.     *)
(***************************************************************************)
EXTENDS Integers, Sequences, FiniteSets, TLC

VARIABLES files, op, args, ret, depthRet, self, canvas, reads

vars == <<files, op, args, ret, depthRet, self, canvas, reads>>

(***************************************************************************)
(* Python values                                                           *)
(***************************************************************************)
PyInt(n) == [k |-> "int", v |-> n]

PyList(s) == [k |-> "list", v |-> s]

None == [k |-> "None", v |-> 0]

False == [k |-> "bool", v |-> 0]

Raise(exc) == [k |-> "raise", v |-> exc]

Unset == [k |-> "unset", v |-> 0]

isinstance(value, type) == value.k = type

Min(S) == CHOOSE m \in S : \A n \in S : m <= n

max(depths) == CHOOSE m \in depths : \A n \in depths : n <= m

(***************************************************************************)
(* class QuadTree                                                          *)
(***************************************************************************)
NB_NODES == 4

\* QuadTree.__init__: the four children are stored as given, in the order
\* hg (top-left), hd (top-right), bd (bottom-right), bg (bottom-left).
QuadTree(hg, hd, bd, bg) ==
    [k |-> "QuadTree", hg |-> hg, hd |-> hd, bd |-> bd, bg |-> bg]

\* depth with the list of depths started at [1]: a leaf child counts a level
RECURSIVE depth_from_one(_)
depth_from_one(tree) ==
    LET sub(child) ==
            IF isinstance(child, "QuadTree") THEN {depth_from_one(child)} ELSE {}
        depths == {1} \cup sub(tree.hg) \cup sub(tree.hd)
                      \cup sub(tree.bd) \cup sub(tree.bg)
    IN  1 + max(depths)

\* QuadTree.depth: 1 + max of [0] and the depths of the children that are
\* QuadTree instances.
RECURSIVE depth(_)
depth(tree) ==
    LET sub(child) == IF isinstance(child, "QuadTree") THEN {depth(child)} ELSE {}
        depths == {0} \cup sub(tree.hg) \cup sub(tree.hd)
                      \cup sub(tree.bd) \cup sub(tree.bg)
    IN  1 + max(depths)

\* from_list with the branch chosen by the last element, data[-1]
RECURSIVE from_list_by_last(_)
from_list_by_last(data) ==
    IF ~isinstance(data, "list") THEN None
    ELSE IF Len(data.v) = 0 THEN Raise("IndexError")
    ELSE IF isinstance(data.v[Len(data.v)], "list") THEN
        LET n == Len(data.v)
            m == IF n > NB_NODES THEN NB_NODES + 1 ELSE n
            r == [i \in 1..m |-> from_list_by_last(data.v[i])]
            raised == {i \in 1..m : isinstance(r[i], "raise")}
        IN  IF raised # {} THEN r[Min(raised)]
            ELSE IF n # NB_NODES THEN Raise("ValueError")
            ELSE QuadTree(r[1], r[2], r[3], r[4])
    ELSE IF Len(data.v) # NB_NODES THEN Raise("TypeError")
    ELSE QuadTree(data.v[1], data.v[2], data.v[3], data.v[4])

\* QuadTree.from_list.  A non-list falls off the end of the function (None).
\* data[0] of an empty list raises IndexError.  With a list first element the
\* generator is unpacked into four names: unpacking draws at most NB_NODES + 1
\* items, each a recursive call whose exception propagates, and raises
\* ValueError unless exactly NB_NODES were produced.  Otherwise QuadTree(*data)
\* raises TypeError unless data has exactly NB_NODES elements, and stores the
\* elements unchanged.
RECURSIVE from_list(_)
from_list(data) ==
    IF ~isinstance(data, "list") THEN None
    ELSE IF Len(data.v) = 0 THEN Raise("IndexError")
    ELSE IF isinstance(data.v[1], "list") THEN
        LET n == Len(data.v)
            m == IF n > NB_NODES THEN NB_NODES + 1 ELSE n
            r == [i \in 1..m |-> from_list(data.v[i])]
            raised == {i \in 1..m : isinstance(r[i], "raise")}
        IN  IF raised # {} THEN r[Min(raised)]
            ELSE IF n # NB_NODES THEN Raise("ValueError")
            ELSE QuadTree(r[1], r[2], r[3], r[4])
    ELSE IF Len(data.v) # NB_NODES THEN Raise("TypeError")
    ELSE QuadTree(data.v[1], data.v[2], data.v[3], data.v[4])

(***************************************************************************)
(* Files.  A text is a sequence of characters; the file system maps the    *)
(* paths that exist to their texts.  eval is modelled on the texts made of *)
(* brackets, commas, digits and blanks: a list display (a trailing comma   *)
(* allowed) or a decimal integer, SyntaxError for anything else.           *)
(***************************************************************************)
DigitChars == <<"0", "1", "2", "3", "4", "5", "6", "7", "8", "9">>

Digits == {DigitChars[i] : i \in DOMAIN DigitChars}

DigitValue(c) == (CHOOSE i \in DOMAIN DigitChars : DigitChars[i] = c) - 1

ParseFail == [ok |-> FALSE, val |-> None, next |-> 0]

RECURSIVE SkipBlanks(_, _)
SkipBlanks(text, i) ==
    IF i <= Len(text) /\ text[i] \in {" ", "\n"} THEN SkipBlanks(text, i + 1) ELSE i

\* a run of digits from i: its value, and SyntaxError for a leading zero
\* before a non-zero digit (Python 3 has no such literal)
RECURSIVE ParseNumber(_, _, _, _)
ParseNumber(text, i, acc, first) ==
    IF i <= Len(text) /\ text[i] \in Digits
    THEN IF i > first /\ text[first] = "0" /\ text[i] # "0" THEN ParseFail
         ELSE ParseNumber(text, i + 1, 10 * acc + DigitValue(text[i]), first)
    ELSE [ok |-> TRUE, val |-> PyInt(acc), next |-> i]

RECURSIVE ParseExpr(_, _)
RECURSIVE ParseItems(_, _, _)
ParseExpr(text, i) ==
    LET j == SkipBlanks(text, i)
    IN  IF j > Len(text) THEN ParseFail
        ELSE IF text[j] = "[" THEN ParseItems(text, j + 1, <<>>)
        ELSE IF text[j] \in Digits THEN ParseNumber(text, j, 0, j)
        ELSE ParseFail

ParseItems(text, i, acc) ==
    LET j == SkipBlanks(text, i)
    IN  IF j > Len(text) THEN ParseFail
        ELSE IF text[j] = "]" THEN [ok |-> TRUE, val |-> PyList(acc), next |-> j + 1]
        ELSE LET e == ParseExpr(text, j)
                 n == SkipBlanks(text, e.next)
             IN  IF ~e.ok \/ n > Len(text) THEN ParseFail
                 ELSE IF text[n] = "," THEN ParseItems(text, n + 1, Append(acc, e.val))
                 ELSE IF text[n] = "]"
                      THEN [ok |-> TRUE, val |-> PyList(Append(acc, e.val)), next |-> n + 1]
                 ELSE ParseFail

eval(text) ==
    LET e == ParseExpr(text, 1)
    IN  IF e.ok /\ SkipBlanks(text, e.next) > Len(text) THEN e.val
        ELSE Raise("SyntaxError")

\* os.path.join(parent_directory, 'files', '../files/quadtree-easy.txt')
EasyPath == "files/quadtree-easy.txt"

\* os.path.join(parent_directory, 'files', '../files/quadtree.txt')
MainPath == "files/quadtree.txt"

\* the path from_file opens: filename is overwritten before it is used
txt_file(filename) == EasyPath

\* QuadTree.from_file on the file system fs
from_file(filename, fs) ==
    IF txt_file(filename) \notin DOMAIN fs THEN Raise("FileNotFoundError")
    ELSE LET data == eval(fs[txt_file(filename)])
         IN  IF isinstance(data, "raise") THEN data ELSE from_list(data)

(***************************************************************************)
(* class TkQuadTree(QuadTree)                                              *)
(***************************************************************************)
CanvasSize == 400

\* canvas.create_rectangle(x0, y0, x1, y1, fill=..., outline='black')
create_rectangle(x0, y0, x1, y1, fill) ==
    [x0 |-> x0, y0 |-> y0, x1 |-> x1, y1 |-> y1, fill |-> fill, outline |-> "black"]

fill_color(node) == IF node.v = 0 THEN "lightgrey" ELSE "black"

\* the square quartered in place of halved
quarter(size) == size \div NB_NODES

\* size // 2 (size is never negative here)
half(size) == size \div 2

\* node[i] of a Python list, i counted from 0
Subscript(node, i) == node.v[i + 1]

\* One call after another: the second runs only if the first did not raise.
Then(first, second) ==
    IF first.exc # "none" THEN first
    ELSE [rects |-> first.rects \o second.rects, exc |-> second.exc]

\* TkQuadTree.draw: the rectangles created on the canvas, in order, and the
\* exception that ended the traversal ("none" when it returned).  node[i] of
\* a list shorter than i + 1 raises IndexError after the earlier quadrants
\* were drawn; a node that is neither a list nor an int draws nothing.
RECURSIVE draw(_, _, _, _)
draw(x, y, size, node) ==
    IF isinstance(node, "list") THEN
        LET half_size == half(size)
            sub(i, cx, cy) ==
                IF Len(node.v) <= i THEN [rects |-> <<>>, exc |-> "IndexError"]
                ELSE draw(cx, cy, half_size, Subscript(node, i))
        IN  Then(sub(0, x, y),
            Then(sub(1, x + half_size, y),
            Then(sub(2, x, y + half_size),
                 sub(3, x + half_size, y + half_size))))
    ELSE IF isinstance(node, "int") THEN
        [rects |-> <<create_rectangle(x, y, x + size, y + size, fill_color(node))>>,
         exc |-> "none"]
    ELSE [rects |-> <<>>, exc |-> "none"]

\* The attributes TkQuadTree.__init__ sets before it draws.
TkQuadTree(data) ==
    [k |-> "TkQuadTree", hg |-> False, hd |-> False, bd |-> False, bg |-> False,
     data |-> data]

(***************************************************************************)
(* Inputs                                                                  *)
(***************************************************************************)
MaxLeaf == 2

MaxLen == 5

LeafValues == {PyInt(n) : n \in 0..MaxLeaf}

\* every list of leaf values of length 0..MaxLen
FlatGroups == UNION {{PyList(s) : s \in [1..n -> LeafValues]} : n \in 0..MaxLen}

Leaves(s) == PyList([i \in DOMAIN s |-> PyInt(s[i])])

\* the groups that occur nested in the larger inputs: a well-formed group and
\* one of the wrong length
SubGroups == {Leaves(<<1, 0, 0, 1>>), Leaves(<<1, 1>>)}

\* every list of length 0..MaxLen of leaves 0/1 and nested groups
NestedGroups ==
    UNION {{PyList(s) : s \in [1..n -> {PyInt(0), PyInt(1)} \cup SubGroups]} :
           n \in 0..MaxLen}

\* [[1,0,0,1],[0,0,1,0],[1,1,0,0],[0,1,1,0]]
Scenario ==
    PyList(<<Leaves(<<1, 0, 0, 1>>), Leaves(<<0, 0, 1, 0>>),
             Leaves(<<1, 1, 0, 0>>), Leaves(<<0, 1, 1, 0>>)>>)

\* [1,[1,0,0,1],0,0]
Mixed == PyList(<<PyInt(1), Leaves(<<1, 0, 0, 1>>), PyInt(0), PyInt(0)>>)

\* groups of NB_NODES elements nested one level deeper
DeepGroups ==
    {PyList(s) : s \in [1..NB_NODES -> {PyInt(0), Leaves(<<0, 1, 1, 0>>), Scenario, Mixed}]}

Inputs == FlatGroups \cup NestedGroups \cup DeepGroups \cup {Scenario, PyInt(1), None}

\* str(value) of a nested list of integers below 10
RECURSIVE str(_)
str(value) ==
    IF isinstance(value, "list")
    THEN LET items[i \in 0..Len(value.v)] ==
                 IF i = 0 THEN <<>>
                 ELSE items[i - 1] \o (IF i > 1 THEN <<",", " ">> ELSE <<>>)
                                  \o str(value.v[i])
         IN  <<"[">> \o items[Len(value.v)] \o <<"]">>
    ELSE <<DigitChars[value.v + 1]>>

\* the texts a file may hold: four encodings, one of them with a trailing
\* comma and a final newline, and a truncated text
Texts ==
    {str(Scenario), str(Leaves(<<0, 1, 1, 0>>)), str(Mixed),
     <<"[", "1", ",", "1", ",", "0", ",", "0", ",", "]", "\n">>,
     <<"[", "1", ",", "0">>}

Paths == {EasyPath, MainPath, "a.txt", "b.txt"}

\* every file system over Paths: each path missing or holding one of Texts
FileSystems == UNION {[P -> Texts] : P \in SUBSET Paths}

\* the bounding squares draw is called with after construction
DrawArgs == {<<0, 0, CanvasSize>>, <<8, 16, 64>>, <<0, 0, 6>>}

(***************************************************************************)
(* Calls                                                                   *)
(***************************************************************************)
NoArgs == [data |-> Unset, x |-> 0, y |-> 0, size |-> 0, filename |-> ""]

DefaultFiles == [p \in {EasyPath, MainPath} |-> str(Leaves(<<0, 1, 1, 0>>))]

Init ==
    /\ files = DefaultFiles
    /\ op = "idle"
    /\ args = NoArgs
    /\ ret = Unset
    /\ depthRet = Unset
    /\ self = Unset
    /\ canvas = <<>>
    /\ reads = <<>>

\* tree = QuadTree.from_list(data)
from_list_call(data) ==
    /\ op = "idle"
    /\ op' = "from_list"
    /\ args' = [NoArgs EXCEPT !.data = data]
    /\ ret' = from_list(data)
    /\ UNCHANGED <<files, depthRet, self, canvas, reads>>

\* tree.depth on what a constructor returned: None has no attribute depth
depth_call ==
    /\ op \in {"from_list", "from_file"}
    /\ ~isinstance(ret, "raise")
    /\ depthRet = Unset
    /\ depthRet' = IF isinstance(ret, "QuadTree") THEN PyInt(depth(ret))
                   ELSE Raise("AttributeError")
    /\ UNCHANGED <<files, op, args, ret, self, canvas, reads>>

\* tk_quadtree = TkQuadTree(data): sets the attributes, opens the canvas and
\* draws data in the whole canvas; an exception in draw ends the construction.
TkQuadTree_call(data) ==
    /\ op = "idle"
    /\ op' = "TkQuadTree"
    /\ args' = [NoArgs EXCEPT !.data = data, !.size = CanvasSize]
    /\ LET drawn == draw(0, 0, CanvasSize, data)
       IN  /\ canvas' = drawn.rects
           /\ self' = TkQuadTree(data)
           /\ ret' = IF drawn.exc = "none" THEN TkQuadTree(data) ELSE Raise(drawn.exc)
    /\ UNCHANGED <<files, depthRet, reads>>

\* tk_quadtree.draw(x, y, size, data) on a constructed instance
draw_call(x, y, size) ==
    /\ op = "TkQuadTree"
    /\ ~isinstance(ret, "raise")
    /\ op' = "draw"
    /\ args' = [args EXCEPT !.x = x, !.y = y, !.size = size]
    /\ LET drawn == draw(x, y, size, self.data)
       IN  /\ canvas' = canvas \o drawn.rects
           /\ ret' = IF drawn.exc = "none" THEN None ELSE Raise(drawn.exc)
    /\ UNCHANGED <<files, depthRet, self, reads>>

\* tk_quadtree.paint(): the event loop runs; nothing of the model changes
paint_call ==
    /\ op \in {"TkQuadTree", "draw"}
    /\ ~isinstance(ret, "raise")
    /\ op' = "paint"
    /\ UNCHANGED <<files, args, ret, depthRet, self, canvas, reads>>

\* tree = QuadTree.from_file(filename)
from_file_call(filename) ==
    /\ op = "idle"
    /\ op' = "from_file"
    /\ args' = [NoArgs EXCEPT !.filename = filename]
    /\ reads' = Append(reads, txt_file(filename))
    /\ ret' = from_file(filename, files)
    /\ UNCHANGED <<files, depthRet, self, canvas>>

\* main(): reads and evaluates the file at MainPath, constructs the
\* TkQuadTree of the value (which draws it) and runs paint.
main_call ==
    /\ op = "idle"
    /\ op' = "main"
    /\ args' = NoArgs
    /\ reads' = Append(reads, MainPath)
    /\ IF MainPath \notin DOMAIN files
       THEN /\ ret' = Raise("FileNotFoundError")
            /\ UNCHANGED <<self, canvas>>
       ELSE LET data == eval(files[MainPath])
                drawn == draw(0, 0, CanvasSize, data)
            IN  IF isinstance(data, "raise")
                THEN /\ ret' = data
                     /\ UNCHANGED <<self, canvas>>
                ELSE /\ canvas' = drawn.rects
                     /\ self' = TkQuadTree(data)
                     /\ ret' = IF drawn.exc = "none" THEN None ELSE Raise(drawn.exc)
    /\ UNCHANGED <<files, depthRet>>

Next ==
    \/ \E data \in Inputs : from_list_call(data)
    \/ depth_call
    \/ \E data \in Inputs : TkQuadTree_call(data)
    \/ \E a \in DrawArgs : draw_call(a[1], a[2], a[3])
    \/ paint_call

Spec == Init /\ [][Next]_vars

\* The calls that read files, on every file system over Paths.
InitFile ==
    /\ files \in FileSystems
    /\ op = "idle"
    /\ args = NoArgs
    /\ ret = Unset
    /\ depthRet = Unset
    /\ self = Unset
    /\ canvas = <<>>
    /\ reads = <<>>

NextFile ==
    \/ \E filename \in Paths : from_file_call(filename)
    \/ depth_call
    \/ main_call

SpecFile == InitFile /\ [][NextFile]_vars

(***************************************************************************)
(* Vocabulary of the properties                                            *)
(***************************************************************************)
IsLeaf(value) == isinstance(value, "int") /\ value.v \in {0, 1}

IsGroup(value) == isinstance(value, "list") /\ Len(value.v) = NB_NODES

Elements(value) == {value.v[i] : i \in DOMAIN value.v}

\* a group of exactly four elements, each 0/1 or again such a group
RECURSIVE WellFormed(_)
WellFormed(value) ==
    /\ IsGroup(value)
    /\ \A e \in Elements(value) : IsLeaf(e) \/ WellFormed(e)

\* in every group the four elements are all leaves or all groups
RECURSIVE SiblingsAgree(_)
SiblingsAgree(value) ==
    isinstance(value, "list") =>
        /\ \A e, f \in Elements(value) : e.k = f.k
        /\ \A e \in Elements(value) : SiblingsAgree(e)

AllLeaves(value) == IsGroup(value) /\ \A e \in Elements(value) : IsLeaf(e)

Largest(S) == CHOOSE m \in S : \A n \in S : n <= m

\* a leaf counts leafDepth, a group 1 + the largest count of its elements
RECURSIVE RuleDepth(_, _)
RuleDepth(value, leafDepth) ==
    IF isinstance(value, "list")
    THEN 1 + Largest({0} \cup {RuleDepth(e, leafDepth) : e \in Elements(value)})
    ELSE leafDepth

\* the number of bracket levels on the deepest path
NestingDepth(value) == RuleDepth(value, 0)

Children(tree) == <<tree.hg, tree.hd, tree.bd, tree.bg>>

\* the same rule read off a constructed tree: a child that is no QuadTree
\* counts 0
RECURSIVE TreeDepth(_)
TreeDepth(node) ==
    IF isinstance(node, "QuadTree")
    THEN 1 + Largest({TreeDepth(Children(node)[i]) : i \in 1..NB_NODES})
    ELSE 0

\* node is the tree of value: hg, hd, bd, bg are the trees of elements
\* 0, 1, 2, 3 and a leaf is its value
RECURSIVE Corresponds(_, _)
Corresponds(node, value) ==
    IF isinstance(value, "list")
    THEN /\ isinstance(node, "QuadTree")
         /\ Len(value.v) = NB_NODES
         /\ \A i \in 1..NB_NODES : Corresponds(Children(node)[i], value.v[i])
    ELSE node = value

\* every child, at every level, is a leaf 0/1 or a constructed QuadTree
RECURSIVE ProperTree(_)
ProperTree(node) ==
    /\ isinstance(node, "QuadTree")
    /\ \A i \in 1..NB_NODES :
           IsLeaf(Children(node)[i]) \/ ProperTree(Children(node)[i])

RECURSIVE HasWrongArity(_)
HasWrongArity(value) ==
    /\ isinstance(value, "list")
    /\ Len(value.v) # NB_NODES \/ \E e \in Elements(value) : HasWrongArity(e)

RECURSIVE HasBadLeaf(_)
HasBadLeaf(value) ==
    IF isinstance(value, "list") THEN \E e \in Elements(value) : HasBadLeaf(e)
    ELSE ~IsLeaf(value)

\* the specification's error kind of a Python exception
ErrorKind(exc) ==
    CASE exc \in {"IndexError", "ValueError", "TypeError"} -> "MalformedInput"
      [] exc = "FileNotFoundError" -> "IoError"
      [] exc = "SyntaxError" -> "ParseError"

FailsWith(result, kind) == isinstance(result, "raise") /\ ErrorKind(result.v) = kind

DepthTaken == op = "from_list" /\ depthRet # Unset

\* the leaves of value in traversal order, each with the number of groups
\* it is reached through
RECURSIVE LeafLevels(_, _)
LeafLevels(value, k) ==
    IF isinstance(value, "list")
    THEN LeafLevels(value.v[1], k + 1) \o LeafLevels(value.v[2], k + 1)
         \o LeafLevels(value.v[3], k + 1) \o LeafLevels(value.v[4], k + 1)
    ELSE <<[value |-> value.v, k |-> k]>>

RECURSIVE Pow2(_)
Pow2(k) == IF k = 0 THEN 1 ELSE 2 * Pow2(k - 1)

\* the squares the traversal is to create when elements 0, 1, 2, 3 of every
\* group go to the top-left, top-right, bottom-right and bottom-left quadrant
RECURSIVE Placement(_, _, _, _)
Placement(x, y, size, value) ==
    IF isinstance(value, "list")
    THEN LET h == size \div 2
         IN  Placement(x, y, h, value.v[1]) \o Placement(x + h, y, h, value.v[2])
             \o Placement(x + h, y + h, h, value.v[3]) \o Placement(x, y + h, h, value.v[4])
    ELSE <<create_rectangle(x, y, x + size, y + size, fill_color(value))>>

\* the squares created by the calls made so far
DrawnBy(n) ==
    IF n = 1 THEN SubSeq(canvas, 1, Len(canvas) \div (IF op = "draw" THEN 2 ELSE 1))
    ELSE SubSeq(canvas, Len(canvas) \div 2 + 1, Len(canvas))

(***************************************************************************)
(* Properties                                                              *)
(***************************************************************************)

C2_DepthIsNestingDepth ==
    (DepthTaken /\ WellFormed(args.data)) => depthRet.v = NestingDepth(args.data)

\* C3: for every well-formed S the children hg, hd, bd, bg of from_list(S)
\* are the trees of S[0], S[1], S[2], S[3], recursively, so that reading the
\* children back in that order reproduces S.
C3_ChildrenFollowPositions ==
    (op = "from_list" /\ WellFormed(args.data)) => Corresponds(ret, args.data)

\* C4: drawing a well-formed S puts elements 0, 1, 2, 3 of every group in the
\* top-left, top-right, bottom-right and bottom-left quadrant of its square.
C4_QuadrantsFollowDataModel ==
    (op \in {"TkQuadTree", "draw"} /\ WellFormed(args.data)) =>
        /\ DrawnBy(1) = Placement(0, 0, CanvasSize, args.data)
        /\ op = "draw" => DrawnBy(2) = Placement(args.x, args.y, args.size, args.data)

\* C5: where every path holds a well-formed encoding, from_file(path) returns
\* the tree of the sequence stored at the path the caller gave, with exactly
\* one read, of that file.
C5_ReadsTheGivenPath ==
    (/\ op = "from_file"
     /\ DOMAIN files = Paths
     /\ \A p \in Paths : WellFormed(eval(files[p]))) =>
        /\ ret = from_list(eval(files[args.filename]))
        /\ reads = <<args.filename>>

\* C6: from_list fails with MalformedInput, and returns no tree, whenever a
\* group of the input, at any level, has fewer or more than 4 elements.
C6_WrongArityFails ==
    (op = "from_list" /\ HasWrongArity(args.data)) => FailsWith(ret, "MalformedInput")

\* C7: from_list fails with MalformedInput whenever every group has 4
\* elements and a leaf position holds a value other than 0 or 1.
C7_BadLeafFails ==
    (/\ op = "from_list"
     /\ IsGroup(args.data)
     /\ ~HasWrongArity(args.data)
     /\ HasBadLeaf(args.data)) =>
        FailsWith(ret, "MalformedInput")

\* C8: from_list never returns None, never returns a tree with a child that
\* is neither a leaf 0/1 nor a constructed QuadTree, and fails on every input
\* that is not well-formed (siblings that mix lists and scalars included).
C8_AllOrNothing ==
    op = "from_list" =>
        /\ ret # None
        /\ isinstance(ret, "QuadTree") => ProperTree(ret)
        /\ ~(WellFormed(args.data) /\ SiblingsAgree(args.data)) => isinstance(ret, "raise")

\* C9: drawing a well-formed S in a square of side s creates exactly one
\* square per leaf value and none for a group; a leaf reached through k
\* groups gets a square of side s / 2^k when 2^k divides s; two leaves get
\* the same fill exactly when they hold the same value.
C9_OneSquarePerLeaf ==
    (op \in {"TkQuadTree", "draw"} /\ WellFormed(args.data)) =>
        LET leaves == LeafLevels(args.data, 0)
            Squares(drawn, s) ==
                /\ Len(drawn) = Len(leaves)
                /\ \A i \in DOMAIN leaves :
                       s % Pow2(leaves[i].k) = 0 =>
                           /\ drawn[i].x1 - drawn[i].x0 = s \div Pow2(leaves[i].k)
                           /\ drawn[i].y1 - drawn[i].y0 = s \div Pow2(leaves[i].k)
                /\ \A i, j \in DOMAIN leaves :
                       (leaves[i].value = leaves[j].value) <=> (drawn[i].fill = drawn[j].fill)
        IN  /\ Len(canvas) = Len(leaves) * (IF op = "draw" THEN 2 ELSE 1)
            /\ Squares(DrawnBy(1), CanvasSize)
            /\ op = "draw" => Squares(DrawnBy(2), args.size)

\* C9 witness: the four groups of four leaves were drawn in the canvas as 16
\* squares of 100 x 100.
C9_Witness ==
    /\ op = "TkQuadTree"
    /\ args.data = Scenario
    /\ Len(canvas) = 16
    /\ \A i \in DOMAIN canvas :
           canvas[i].x1 - canvas[i].x0 = 100 /\ canvas[i].y1 - canvas[i].y0 = 100

=============================================================================
